---- MODULE Spec2Model ----
(***************************************************************************)
(* State machine of the drawing widget: the host component Main            *)
(* (src/src/components/Main/index.tsx, lines 1-236), the canvas component  *)
(* Paint (src/src/components/Paint/index.tsx) and the helpers of           *)
(* Paint/func (src/unnamed/part_000).                                      *)
(*                                                                         *)
(* One action per event handler.  A handler that runs in a discrete event  *)
(* (mousedown, mouseup, click, keydown, button click) is one atomic step   *)
(* together with the re-render that follows it.  The draft update queued   *)
(* by a pointer-move is rendered by a step of its own (Render): the        *)
(* handlers installed on the stage are the closures of the last render.    *)
(*                                                                         *)
(* Array indices are 0-based as in the source: At(list, index).            *)
(***************************************************************************)
EXTENDS Integers, Sequences, FiniteSets, TLC

---------------------------------------------------------------------------
(* Bounds of the model *)

\* number of commands of a run: toolbar buttons (draw mode, colour, readonly,
\* rotate, upload, export, import) and edits of the selected shape (move-end,
\* resize-end, text-input)
MaxCommands == 2
\* number of keys uuidv4() hands out: the drafts of a run
MaxKeys == 1
\* a key is appended to a text only up to this length
MaxTextLen == 6
\* number of commands of a long run (LongSpec), whose commands are the
\* document commands (import, export, rotate) and the edits only
MaxLongCommands == 4

---------------------------------------------------------------------------
(* Values *)

\* JavaScript's undefined (also the null of getPointerPosition())
Undefined == [type |-> "undefined"]

DrawModes == {"SELECT", "RECT", "ELLIPSE", "TEXT_S", "TEXT_L"}
PenColors == {"ORANGE", "GREEN", "PURPLE"}

\* pointer positions on the stage and node positions reported by a drag
Points == {[x |-> 0, y |-> 0], [x |-> 2, y |-> 1]}
\* sizes reported by the transform handles (scale * node size; a handle
\* dragged past the opposite edge reports a negative size)
Sizes == {[width |-> 3, height |-> 5], [width |-> -3, height |-> 4]}

\* KeyboardEvent.key values and the characters of each
Keys == {"A", "F1", "Backspace", "Enter"}
Chars(key) ==
  CASE key = "A" -> <<"A">>
    [] key = "F1" -> <<"F", "1">>
    [] key = "Backspace" -> <<"B", "a", "c", "k", "s", "p", "a", "c", "e">>
    [] key = "Enter" -> <<"E", "n", "t", "e", "r">>

\* what a pointer-down can hit: the stage itself, the background image
\* node, or any other node (a shape, the draft, a transform handle)
Targets == {"stage", "image", "shape"}

\* the files the file picker can return
Files == {"imgA"}

\* the values a number-typed state can hold besides a number: undefined (a
\* member the imported document lacks), NaN (arithmetic on undefined) and
\* null (what JSON writes for NaN)
UndefinedNumber == -1001
NaN == -1002
NullNumber == -1003

At(list, index) == list[index + 1]
InRange(list, index) == index >= 0 /\ index < Len(list)

Abs(n) == IF n < 0 THEN -n ELSE n

---------------------------------------------------------------------------
(* Paint/func *)

\* the rgba(...) string as its four numbers; opacity in tenths (1.0 = 10)
getRGBFromPenColor(penColor, opacity) ==
  CASE penColor = "ORANGE" -> [r |-> 249, g |-> 115, b |-> 22, a |-> opacity]
    [] penColor = "GREEN" -> [r |-> 34, g |-> 197, b |-> 94, a |-> opacity]
    [] penColor = "PURPLE" -> [r |-> 168, g |-> 85, b |-> 247, a |-> opacity]

isPaintRect(shape) == shape.type = "RECT"
isPaintEllipse(shape) == shape.type = "ELLIPSE"
isPaintText(shape) == shape.type = "TEXT"

---------------------------------------------------------------------------
(* State *)

VARIABLES
  readonly,        \* Main: useState(false)
  drawMode,        \* Main: useState("SELECT")
  penColor,        \* Main: useState("ORANGE")
  shapes,          \* Main: useState([])
  bgImg,           \* Main: useState(), an image or Undefined
  bgImgRotation,   \* Main: useState(0)
  textArea,        \* the value of the textarea textAreaEl points at
  reading,         \* the files a FileReader is reading
  loading,         \* the images whose load event has not fired yet
  selectedShape,   \* Paint: useState(), {index, key} or Undefined
  drawTarget,      \* Paint: useState(), the draft as of the last render
  queuedTarget,    \* the draft after the updates queued by pointer-moves
  nextKey,         \* the next key uuidv4() returns
  commands,        \* number of commands so far (a long run starts below 0)
  crashed,         \* a render threw and the tree is unmounted; the other
                   \* variables keep their last values and mean nothing
  last,            \* name of the last handler
  emitted          \* the callbacks (and alerts) the last handler invoked

vars == <<readonly, drawMode, penColor, shapes, bgImg, bgImgRotation, textArea,
          reading, loading, selectedShape, drawTarget, queuedTarget, nextKey,
          commands, crashed, last, emitted>>

settingVars == <<readonly, drawMode, penColor>>
docVars == <<bgImg, bgImgRotation, textArea, reading, loading>>
paintVars == <<selectedShape, drawTarget, queuedTarget>>
boundVars == <<nextKey, commands>>

\* the state after the first render of Main
Mounted ==
  /\ readonly = FALSE
  /\ drawMode = "SELECT"
  /\ penColor = "ORANGE"
  /\ shapes = <<>>
  /\ bgImg = Undefined
  /\ bgImgRotation = 0
  /\ textArea = [kind |-> "text", value |-> ""]
  /\ reading = {}
  /\ loading = {}
  /\ selectedShape = Undefined
  /\ drawTarget = Undefined
  /\ queuedTarget = Undefined
  /\ nextKey = 1
  /\ crashed = FALSE
  /\ last = "init"
  /\ emitted = <<>>

Init == Mounted /\ commands = 0

\* a long run starts with MaxLongCommands commands left instead of MaxCommands
LongInit == Mounted /\ commands = MaxCommands - MaxLongCommands

---------------------------------------------------------------------------
(* Paint: the draw session *)

\* newDrawTarget with the two font sizes exchanged
newDrawTarget_fontSwapped(mode, pos, key, color, ro) ==
  CASE mode = "RECT" ->
         [type |-> "RECT", x |-> pos.x, y |-> pos.y, width |-> 0, height |-> 0,
          key |-> key, strokeColor |-> getRGBFromPenColor(color, 10),
          fillColor |-> getRGBFromPenColor(color, 3), readonly |-> ro]
    [] mode = "ELLIPSE" ->
         [type |-> "ELLIPSE", x |-> pos.x, y |-> pos.y, radiusX |-> 0,
          radiusY |-> 0, key |-> key,
          strokeColor |-> getRGBFromPenColor(color, 10),
          fillColor |-> getRGBFromPenColor(color, 3), readonly |-> ro]
    [] mode \in {"TEXT_S", "TEXT_L"} ->
         [type |-> "TEXT", x |-> pos.x, y |-> pos.y, width |-> 0,
          text |-> <<"T", "E", "X", "T">>, key |-> key,
          fontSize |-> IF mode = "TEXT_S" THEN 32 ELSE 16,
          color |-> getRGBFromPenColor(color, 10), readonly |-> ro]
    [] OTHER -> Undefined

\* newDrawTarget filling an ellipse with the full-opacity colour
newDrawTarget_fillOpaque(mode, pos, key, color, ro) ==
  CASE mode = "RECT" ->
         [type |-> "RECT", x |-> pos.x, y |-> pos.y, width |-> 0, height |-> 0,
          key |-> key, strokeColor |-> getRGBFromPenColor(color, 10),
          fillColor |-> getRGBFromPenColor(color, 3), readonly |-> ro]
    [] mode = "ELLIPSE" ->
         [type |-> "ELLIPSE", x |-> pos.x, y |-> pos.y, radiusX |-> 0,
          radiusY |-> 0, key |-> key,
          strokeColor |-> getRGBFromPenColor(color, 10),
          fillColor |-> getRGBFromPenColor(color, 10), readonly |-> ro]
    [] mode \in {"TEXT_S", "TEXT_L"} ->
         [type |-> "TEXT", x |-> pos.x, y |-> pos.y, width |-> 0,
          text |-> <<"T", "E", "X", "T">>, key |-> key,
          fontSize |-> IF mode = "TEXT_S" THEN 16 ELSE 32,
          color |-> getRGBFromPenColor(color, 10), readonly |-> ro]
    [] OTHER -> Undefined

\* the switch of handleCanvasMouseDown: the draft built for drawMode
newDrawTarget(mode, pos, key, color, ro) ==
  CASE mode = "RECT" ->
         [type |-> "RECT", x |-> pos.x, y |-> pos.y, width |-> 0, height |-> 0,
          key |-> key, strokeColor |-> getRGBFromPenColor(color, 10),
          fillColor |-> getRGBFromPenColor(color, 3), readonly |-> ro]
    [] mode = "ELLIPSE" ->
         [type |-> "ELLIPSE", x |-> pos.x, y |-> pos.y, radiusX |-> 0,
          radiusY |-> 0, key |-> key,
          strokeColor |-> getRGBFromPenColor(color, 10),
          fillColor |-> getRGBFromPenColor(color, 3), readonly |-> ro]
    [] mode \in {"TEXT_S", "TEXT_L"} ->
         [type |-> "TEXT", x |-> pos.x, y |-> pos.y, width |-> 0,
          text |-> <<"T", "E", "X", "T">>, key |-> key,
          fontSize |-> IF mode = "TEXT_S" THEN 16 ELSE 32,
          color |-> getRGBFromPenColor(color, 10), readonly |-> ro]
    [] OTHER -> Undefined

\* the updater handleCanvasMouseMove passes to setDrawTarget
moveDrawTarget(target, pos) ==
  IF target = Undefined THEN target
  ELSE IF isPaintRect(target)
    THEN [target EXCEPT !.width = pos.x - target.x,
                        !.height = pos.y - target.y]
  ELSE IF isPaintEllipse(target)
    THEN [target EXCEPT !.radiusX = Abs(pos.x - target.x),
                        !.radiusY = Abs(pos.y - target.y)]
  ELSE IF isPaintText(target)
    THEN [target EXCEPT !.width = pos.x - target.x]
  ELSE target

---------------------------------------------------------------------------
(* Main: the updaters of the shape list *)

\* handleCanvasDrawEnd putting the new shape first
handleCanvasDrawEnd_prepend(prevShapes, newShape) ==
  IF newShape = Undefined THEN prevShapes ELSE <<newShape>> \o prevShapes

\* setShapes((prevShapes) => prevShapes.concat(newShape))
handleCanvasDrawEnd(prevShapes, newShape) ==
  IF newShape = Undefined THEN prevShapes ELSE Append(prevShapes, newShape)

\* handleShapeMoveEnd writing pos.x to both coordinates
handleShapeMoveEnd_xOnly(prevShapes, index, pos) ==
  [prevShapes EXCEPT ![index + 1] = [@ EXCEPT !.x = pos.x, !.y = pos.x]]

\* handleShapeMoveEnd bringing the moved shape to the front (the end of the list)
handleShapeMoveEnd_toFront(prevShapes, index, pos) ==
  SubSeq(prevShapes, 1, index) \o SubSeq(prevShapes, index + 2, Len(prevShapes))
    \o <<[At(prevShapes, index) EXCEPT !.x = pos.x, !.y = pos.y]>>

handleShapeMoveEnd(prevShapes, index, pos) ==
  [prevShapes EXCEPT ![index + 1] = [@ EXCEPT !.x = pos.x, !.y = pos.y]]

\* handleShapeResizeEnd storing the diameter of an ellipse as its radius
handleShapeResizeEnd_diameter(prevShapes, index, size) ==
  LET targetShape == At(prevShapes, index) IN
  IF isPaintRect(targetShape)
    THEN [prevShapes EXCEPT ![index + 1] =
            [@ EXCEPT !.width = size.width, !.height = size.height]]
  ELSE IF isPaintEllipse(targetShape)
    THEN [prevShapes EXCEPT ![index + 1] =
            [@ EXCEPT !.radiusX = size.width, !.radiusY = size.height]]
  ELSE IF isPaintText(targetShape)
    THEN [prevShapes EXCEPT ![index + 1] = [@ EXCEPT !.width = size.width]]
  ELSE prevShapes

handleShapeResizeEnd(prevShapes, index, size) ==
  LET targetShape == At(prevShapes, index) IN
  IF isPaintRect(targetShape)
    THEN [prevShapes EXCEPT ![index + 1] =
            [@ EXCEPT !.width = size.width, !.height = size.height]]
  ELSE IF isPaintEllipse(targetShape)
    THEN [prevShapes EXCEPT ![index + 1] =
            [@ EXCEPT !.radiusX = size.width \div 2,
                      !.radiusY = size.height \div 2]]
  ELSE IF isPaintText(targetShape)
    THEN [prevShapes EXCEPT ![index + 1] = [@ EXCEPT !.width = size.width]]
  ELSE prevShapes

\* text.substring(0, text.length - 1)
DropLast(text) == IF Len(text) = 0 THEN text ELSE SubSeq(text, 1, Len(text) - 1)

\* handleTextInput without the Backspace case
handleTextInput_noBackspace(prevShapes, index, char) ==
  LET target == At(prevShapes, index) IN
  IF isPaintText(target)
    THEN [prevShapes EXCEPT ![index + 1] =
            [@ EXCEPT !.text = target.text \o Chars(char)]]
    ELSE prevShapes

handleTextInput(prevShapes, index, char) ==
  LET target == At(prevShapes, index) IN
  IF isPaintText(target)
    THEN IF char = "Backspace"
      THEN [prevShapes EXCEPT ![index + 1] =
              [@ EXCEPT !.text = DropLast(target.text)]]
      ELSE [prevShapes EXCEPT ![index + 1] =
              [@ EXCEPT !.text = target.text \o Chars(char)]]
    ELSE prevShapes

\* (prevRotation + 90) % 360: undefined + 90 and NaN + 90 are NaN, null + 90
\* is 90
nextRotation(prevRotation) ==
  IF prevRotation \in {UndefinedNumber, NaN} THEN NaN
  ELSE IF prevRotation = NullNumber THEN 90
  ELSE (prevRotation + 90) % 360

---------------------------------------------------------------------------
(* Main: the JSON document *)

\* new window.Image() with the given src
Image(src) == [type |-> "image", src |-> src]

\* a parsed JSON value: null, or an object with some of the members the
\* import reads (a member not in `members` reads as undefined)
Null == [type |-> "null"]
Object(members, src, rotation, list) ==
  [type |-> "object", members |-> members, bgImgSrc |-> src,
   bgImgRotation |-> rotation, shapes |-> list]
Has(data, member) == member \in data.members

\* JSON.stringify({bgImgSrc: bgImg?.src, bgImgRotation, shapes}): a member
\* whose value is undefined is left out of the text
\* and NaN is written as null
JSONstringify(img, rotation, list) ==
  [kind |-> "json",
   value |-> Object((IF img = Undefined THEN {} ELSE {"bgImgSrc"})
                      \cup (IF rotation = UndefinedNumber THEN {}
                            ELSE {"bgImgRotation"})
                      \cup {"shapes"},
                    IF img = Undefined THEN "" ELSE img.src,
                    IF rotation = NaN THEN NullNumber ELSE rotation,
                    list)]

\* JSON.parse: the value of a JSON text; it throws on any other text
IsJSON(text) == text.kind = "json"
JSONparse(text) == text.value

\* shapes a user can write into the textarea
TypedRect(key, ro) ==
  [type |-> "RECT", x |-> 1, y |-> 1, width |-> 2, height |-> 2, key |-> key,
   strokeColor |-> getRGBFromPenColor("GREEN", 10),
   fillColor |-> getRGBFromPenColor("GREEN", 3), readonly |-> ro]
TypedEllipse(key, ro) ==
  [type |-> "ELLIPSE", x |-> 3, y |-> 2, radiusX |-> 2, radiusY |-> 1,
   key |-> key, strokeColor |-> getRGBFromPenColor("ORANGE", 10),
   fillColor |-> getRGBFromPenColor("ORANGE", 3), readonly |-> ro]
TypedText(key, ro) ==
  [type |-> "TEXT", x |-> 0, y |-> 1, width |-> 4, text |-> <<>>,
   key |-> key, fontSize |-> 16,
   color |-> getRGBFromPenColor("PURPLE", 10), readonly |-> ro]

\* texts a user can write into the textarea: no JSON, JSON that is no
\* document, and documents.  Keys 101 and 102 are keys of another session;
\* key 1 is the key of the first draft of this session.
Document(rotation, list) == Object({"bgImgRotation", "shapes"}, "", rotation, list)
TypedTexts ==
  { [kind |-> "text", value |-> "oops"],
    [kind |-> "json", value |-> Null],
    [kind |-> "json", value |-> Object({}, "", 0, <<>>)],
    [kind |-> "json",
     value |-> Document(90, <<TypedEllipse(101, FALSE), TypedText(102, FALSE)>>)],
    [kind |-> "json",
     value |-> Document(0, <<TypedRect(101, FALSE), TypedRect(101, FALSE)>>)],
    [kind |-> "json", value |-> Document(0, <<TypedRect(1, TRUE)>>)],
    [kind |-> "json",
     value |-> Object({"bgImgSrc", "bgImgRotation", "shapes"}, "imgB", 180, <<>>)] }

\* more texts, written in long runs: a document without bgImgRotation, and
\* the export of another session whose only shape is a readonly text
MoreTexts ==
  { [kind |-> "json",
     value |-> Object({"shapes"}, "", UndefinedNumber, <<TypedRect(103, FALSE)>>)],
    [kind |-> "json", value |-> Document(0, <<TypedText(104, TRUE)>>)] }

\* the keys a text mentions
KeysOf(text) ==
  IF IsJSON(text) /\ JSONparse(text).type = "object"
       /\ Has(JSONparse(text), "shapes")
    THEN {JSONparse(text).shapes[i].key : i \in 1..Len(JSONparse(text).shapes)}
    ELSE {}

\* a user can write a key of this session only after uuidv4() returned it
Typeable(text) == \A k \in KeysOf(text) : k >= 100 \/ k < nextKey

---------------------------------------------------------------------------
(* Actions *)

\* Main: the draw mode buttons
handleDrawModeChange(mode) ==
  /\ ~crashed
  /\ commands < MaxCommands
  /\ commands' = commands + 1
  /\ drawMode' = mode
  /\ last' = "drawModeChange"
  /\ emitted' = <<>>
  /\ UNCHANGED <<readonly, penColor, shapes, docVars, paintVars, nextKey, crashed>>

\* Main: the colour buttons
handlePenColorChange(color) ==
  /\ ~crashed
  /\ commands < MaxCommands
  /\ commands' = commands + 1
  /\ penColor' = color
  /\ last' = "penColorChange"
  /\ emitted' = <<>>
  /\ UNCHANGED <<readonly, drawMode, shapes, docVars, paintVars, nextKey, crashed>>

\* Main: the readonly checkbox
handleReadonlyChange ==
  /\ ~crashed
  /\ commands < MaxCommands
  /\ commands' = commands + 1
  /\ readonly' = ~readonly
  /\ last' = "readonlyChange"
  /\ emitted' = <<>>
  /\ UNCHANGED <<drawMode, penColor, shapes, docVars, paintVars, nextKey, crashed>>

\* Main: the rotate button
rotateBackgroundImage ==
  /\ ~crashed
  /\ commands < MaxCommands
  /\ commands' = commands + 1
  /\ bgImgRotation' = nextRotation(bgImgRotation)
  /\ last' = "rotate"
  /\ emitted' = <<>>
  /\ UNCHANGED <<settingVars, shapes, bgImg, textArea, reading, loading,
                 paintVars, nextKey, crashed>>

\* Main: the file input changed; the FileReader starts reading
handleFileChange(file) ==
  /\ ~crashed
  /\ commands < MaxCommands
  /\ commands' = commands + 1
  /\ reading' = reading \cup {file}
  /\ last' = "fileChange"
  /\ emitted' = <<>>
  /\ UNCHANGED <<settingVars, shapes, bgImg, bgImgRotation, textArea, loading,
                 paintVars, nextKey, crashed>>

\* reader.onloadend: the image is created and starts loading
readerLoadEnd(file) ==
  /\ file \in reading
  /\ reading' = reading \ {file}
  /\ loading' = loading \cup {Image(file)}
  /\ last' = "loadend"
  /\ emitted' = <<>>
  /\ UNCHANGED <<settingVars, shapes, bgImg, bgImgRotation, textArea, paintVars,
                 boundVars, crashed>>

\* imageLoad cancelling the loads that are still in flight
imageLoad_cancelsOthers(image) ==
  /\ image \in loading
  /\ loading' = {}
  /\ bgImg' = IF crashed THEN bgImg ELSE image
  /\ last' = "load"
  /\ emitted' = <<>>
  /\ UNCHANGED <<settingVars, shapes, bgImgRotation, textArea, reading, paintVars,
                 boundVars, crashed>>

\* the load event of an image: setBgImg(image)
imageLoad(image) ==
  /\ image \in loading
  /\ loading' = loading \ {image}
  /\ bgImg' = IF crashed THEN bgImg ELSE image
  /\ last' = "load"
  /\ emitted' = <<>>
  /\ UNCHANGED <<settingVars, shapes, bgImgRotation, textArea, reading, paintVars,
                 boundVars, crashed>>

\* Main: the export button
handleJSONExport ==
  /\ ~crashed
  /\ commands < MaxCommands
  /\ commands' = commands + 1
  /\ textArea' = JSONstringify(bgImg, bgImgRotation, shapes)
  /\ last' = "export"
  /\ emitted' = <<>>
  /\ UNCHANGED <<settingVars, shapes, bgImg, bgImgRotation, reading, loading,
                 paintVars, nextKey, crashed>>

\* handleJSONImport emptying the shape list before it parses the text
handleJSONImport_clearFirst(text) ==
  /\ ~crashed
  /\ commands < MaxCommands
  /\ text = textArea \/ (text \in TypedTexts \cup MoreTexts /\ Typeable(text))
  /\ commands' = commands + 1
  /\ textArea' = text
  /\ last' = "import"
  /\ IF ~IsJSON(text) \/ JSONparse(text) = Null
       THEN /\ emitted' = <<[cb |-> "alert"]>>
            /\ shapes' = <<>>
            /\ UNCHANGED <<bgImgRotation, loading, crashed>>
       ELSE LET data == JSONparse(text) IN
            /\ emitted' = <<>>
            /\ loading' = IF Has(data, "bgImgSrc") /\ data.bgImgSrc # ""
                            THEN loading \cup {Image(data.bgImgSrc)}
                            ELSE loading
            /\ IF ~Has(data, "shapes")
                 THEN /\ crashed' = TRUE
                      /\ UNCHANGED <<shapes, bgImgRotation>>
                 ELSE /\ bgImgRotation' = IF Has(data, "bgImgRotation")
                                            THEN data.bgImgRotation
                                            ELSE UndefinedNumber
                      /\ shapes' = data.shapes
                      /\ UNCHANGED crashed
  /\ UNCHANGED <<settingVars, bgImg, reading, paintVars, nextKey>>

\* handleJSONImport clearing the background image when the document has no
\* bgImgSrc
handleJSONImport_clearsImage(text) ==
  /\ ~crashed
  /\ commands < MaxCommands
  /\ text = textArea \/ (text \in TypedTexts \cup MoreTexts /\ Typeable(text))
  /\ commands' = commands + 1
  /\ textArea' = text
  /\ last' = "import"
  /\ IF ~IsJSON(text) \/ JSONparse(text) = Null
       THEN /\ emitted' = <<[cb |-> "alert"]>>
            /\ UNCHANGED <<shapes, bgImgRotation, loading, crashed>>
       ELSE LET data == JSONparse(text) IN
            /\ emitted' = <<>>
            /\ loading' = IF Has(data, "bgImgSrc") /\ data.bgImgSrc # ""
                            THEN loading \cup {Image(data.bgImgSrc)}
                            ELSE loading
            /\ IF ~Has(data, "shapes")
                 THEN /\ crashed' = TRUE
                      /\ UNCHANGED <<shapes, bgImgRotation>>
                 ELSE /\ bgImgRotation' = IF Has(data, "bgImgRotation")
                                            THEN data.bgImgRotation
                                            ELSE UndefinedNumber
                      /\ shapes' = data.shapes
                      /\ UNCHANGED crashed
  /\ bgImg' = IF IsJSON(text) /\ JSONparse(text) # Null
                    /\ ~(Has(JSONparse(text), "bgImgSrc")
                          /\ JSONparse(text).bgImgSrc # "")
                 THEN Undefined
                 ELSE bgImg
  /\ UNCHANGED <<settingVars, reading, paintVars, nextKey>>

\* Main: the import button, pressed with `text` in the textarea (the text an
\* export left there, or a text the user wrote)
handleJSONImport(text) ==
  /\ ~crashed
  /\ commands < MaxCommands
  /\ text = textArea \/ (text \in TypedTexts \cup MoreTexts /\ Typeable(text))
  /\ commands' = commands + 1
  /\ textArea' = text
  /\ last' = "import"
  /\ IF ~IsJSON(text) \/ JSONparse(text) = Null
       THEN \* JSON.parse throws, or data.bgImgSrc throws on null
            /\ emitted' = <<[cb |-> "alert"]>>
            /\ UNCHANGED <<shapes, bgImgRotation, loading, crashed>>
       ELSE LET data == JSONparse(text) IN
            /\ emitted' = <<>>
            /\ loading' = IF Has(data, "bgImgSrc") /\ data.bgImgSrc # ""
                            THEN loading \cup {Image(data.bgImgSrc)}
                            ELSE loading
            /\ IF ~Has(data, "shapes")
                 THEN \* ShapeList renders shapes.map(...) of undefined
                      /\ crashed' = TRUE
                      /\ UNCHANGED <<shapes, bgImgRotation>>
                 ELSE /\ bgImgRotation' = IF Has(data, "bgImgRotation")
                                            THEN data.bgImgRotation
                                            ELSE UndefinedNumber
                      /\ shapes' = data.shapes
                      /\ UNCHANGED crashed
  /\ UNCHANGED <<settingVars, bgImg, reading, paintVars, nextKey>>

\* Paint: pointer-down on the stage
handleCanvasMouseDown(pos, target) ==
  /\ ~crashed
  /\ target = "image" => bgImg # Undefined
  /\ target = "shape" => (shapes # <<>> \/ drawTarget # Undefined)
  /\ last' = "mouseDown"
  /\ emitted' = <<>>
  /\ IF pos = Undefined
       THEN UNCHANGED <<selectedShape, drawTarget, queuedTarget, nextKey>>
       ELSE /\ selectedShape' =
                 IF target \in {"stage", "image"} THEN Undefined
                 ELSE selectedShape
            /\ IF drawMode = "SELECT"
                 THEN UNCHANGED <<drawTarget, queuedTarget, nextKey>>
                 ELSE /\ nextKey <= MaxKeys
                      /\ drawTarget' =
                           newDrawTarget(drawMode, pos, nextKey, penColor, readonly)
                      /\ queuedTarget' = drawTarget'
                      /\ nextKey' = nextKey + 1
  /\ UNCHANGED <<settingVars, shapes, docVars, commands, crashed>>

\* Paint: pointer-move on the stage; the update is queued, not yet rendered
handleCanvasMouseMove(pos) ==
  /\ ~crashed
  /\ last' = "mouseMove"
  /\ emitted' = <<>>
  /\ queuedTarget' =
       IF pos = Undefined THEN queuedTarget ELSE moveDrawTarget(queuedTarget, pos)
  /\ UNCHANGED <<settingVars, shapes, docVars, selectedShape, drawTarget,
                 boundVars, crashed>>

\* the render that applies the queued pointer-move updates
Render ==
  /\ ~crashed
  /\ queuedTarget # drawTarget
  /\ drawTarget' = queuedTarget
  /\ last' = "render"
  /\ emitted' = <<>>
  /\ UNCHANGED <<settingVars, shapes, docVars, selectedShape, queuedTarget,
                 boundVars, crashed>>

\* handleCanvasMouseUp without setDrawTarget(undefined)
handleCanvasMouseUp_keepsDraft ==
  /\ ~crashed
  /\ last' = "mouseUp"
  /\ emitted' = <<[cb |-> "onDrawEnd", newItem |-> drawTarget]>>
  /\ drawTarget' = queuedTarget
  /\ queuedTarget' = queuedTarget
  /\ drawMode' = "SELECT"
  /\ shapes' = handleCanvasDrawEnd(shapes, drawTarget)
  /\ UNCHANGED <<readonly, penColor, docVars, selectedShape, boundVars, crashed>>

\* Paint: pointer-up on the stage, and Main's handleCanvasDrawEnd
handleCanvasMouseUp ==
  /\ ~crashed
  /\ last' = "mouseUp"
  /\ emitted' = <<[cb |-> "onDrawEnd", newItem |-> drawTarget]>>
  /\ drawTarget' = Undefined
  /\ queuedTarget' = Undefined
  /\ drawMode' = "SELECT"
  /\ shapes' = handleCanvasDrawEnd(shapes, drawTarget)
  /\ UNCHANGED <<readonly, penColor, docVars, selectedShape, boundVars, crashed>>

\* onSelectOf recording the position counted from 1
onSelectOf_oneBased(list, index, selection) ==
  IF At(list, index).readonly THEN selection
  ELSE [type |-> "selection", index |-> index + 1, key |-> At(list, index).key]

\* ShapeList: the onSelect prop of the shape at index
onSelectOf(list, index, selection) ==
  IF At(list, index).readonly THEN selection
  ELSE [type |-> "selection", index |-> index, key |-> At(list, index).key]

\* click on the shape at position index
handleSelect(index) ==
  /\ ~crashed
  /\ InRange(shapes, index)
  /\ last' = "click"
  /\ emitted' = <<>>
  /\ selectedShape' = onSelectOf(shapes, index, selectedShape)
  /\ UNCHANGED <<settingVars, shapes, docVars, drawTarget, queuedTarget,
                 boundVars, crashed>>

\* ShapeList: the shape at index is rendered with selected = true
Selected(list, index, selection) ==
  /\ InRange(list, index)
  /\ selection # Undefined
  /\ selection.key = At(list, index).key

\* Shape: drag end of the selected shape, and Main's handleShapeMoveEnd
handleDragEnd(index, pos) ==
  /\ ~crashed
  /\ commands < MaxCommands
  /\ Selected(shapes, index, selectedShape)
  /\ commands' = commands + 1
  /\ last' = "dragEnd"
  /\ emitted' = <<[cb |-> "onShapeMoveEnd", index |-> index, pos |-> pos]>>
  /\ shapes' = handleShapeMoveEnd(shapes, index, pos)
  /\ UNCHANGED <<settingVars, docVars, paintVars, nextKey, crashed>>

\* Shape: transform end of the selected shape, and Main's handleShapeResizeEnd
handleTransformEnd(index, size) ==
  /\ ~crashed
  /\ commands < MaxCommands
  /\ Selected(shapes, index, selectedShape)
  /\ commands' = commands + 1
  /\ last' = "transformEnd"
  /\ emitted' = <<[cb |-> "onShapeResizeEnd", index |-> index, size |-> size]>>
  /\ shapes' = handleShapeResizeEnd(shapes, index, size)
  /\ UNCHANGED <<settingVars, docVars, paintVars, nextKey, crashed>>

\* a text grows only up to MaxTextLen
TextFits(index, key) ==
  (InRange(shapes, index) /\ isPaintText(At(shapes, index)) /\ key # "Backspace")
    => Len(At(shapes, index).text) + Len(Chars(key)) <= MaxTextLen

\* handleKey forwarding Enter like any other key after clearing the selection
handleKey_enterForwarded(selection, key) ==
  [selection |-> IF key = "Enter" THEN Undefined ELSE selection,
   calls |-> <<[cb |-> "onTextInput", index |-> selection.index,
                char |-> key]>>]

\* Paint: what the keydown listener does with a key: the new selection and
\* the onTextInput calls
handleKey(selection, key) ==
  IF key = "Enter"
    THEN [selection |-> Undefined, calls |-> <<>>]
    ELSE [selection |-> selection,
          calls |-> <<[cb |-> "onTextInput", index |-> selection.index,
                       char |-> key]>>]

\* keyDown with a listener that stays attached without a selection and
\* forwards the key to the first shape
keyDown_alwaysAttached(key) ==
  /\ ~crashed
  /\ last' = "keyDown"
  /\ IF selectedShape = Undefined
       THEN /\ emitted' = <<[cb |-> "onTextInput", index |-> 0, char |-> key]>>
            /\ TextFits(0, key)
            /\ shapes' = IF InRange(shapes, 0)
                           THEN handleTextInput(shapes, 0, key)
                           ELSE shapes
            /\ UNCHANGED <<selectedShape, commands, crashed>>
       ELSE LET r == handleKey(selectedShape, key) IN
            /\ selectedShape' = r.selection
            /\ emitted' = r.calls
            /\ IF r.calls = <<>>
                 THEN UNCHANGED <<shapes, commands, crashed>>
                 ELSE /\ commands < MaxCommands
                      /\ TextFits(r.calls[1].index, r.calls[1].char)
                      /\ commands' = commands + 1
                      /\ IF InRange(shapes, r.calls[1].index)
                           THEN /\ shapes' = handleTextInput(shapes,
                                       r.calls[1].index, r.calls[1].char)
                                /\ UNCHANGED crashed
                           ELSE /\ crashed' = TRUE
                                /\ UNCHANGED shapes
  /\ UNCHANGED <<settingVars, docVars, drawTarget, queuedTarget, nextKey>>

\* window keydown; the listener is attached only while a shape is selected
keyDown(key) ==
  /\ ~crashed
  /\ last' = "keyDown"
  /\ IF selectedShape = Undefined
       THEN /\ emitted' = <<>>
            /\ UNCHANGED <<shapes, selectedShape, commands, crashed>>
       ELSE LET r == handleKey(selectedShape, key) IN
            /\ selectedShape' = r.selection
            /\ emitted' = r.calls
            /\ IF r.calls = <<>>
                 THEN UNCHANGED <<shapes, commands, crashed>>
                 ELSE /\ commands < MaxCommands
                      /\ TextFits(r.calls[1].index, r.calls[1].char)
                      /\ commands' = commands + 1
                      /\ IF InRange(shapes, r.calls[1].index)
                           THEN /\ shapes' = handleTextInput(shapes,
                                       r.calls[1].index, r.calls[1].char)
                                /\ UNCHANGED crashed
                           ELSE \* isPaintText(undefined) throws in the updater
                                /\ crashed' = TRUE
                                /\ UNCHANGED shapes
  /\ UNCHANGED <<settingVars, docVars, drawTarget, queuedTarget, nextKey>>

Next ==
  \/ \E mode \in DrawModes \ {"SELECT"} : handleDrawModeChange(mode)
  \/ \E color \in PenColors : handlePenColorChange(color)
  \/ handleReadonlyChange
  \/ rotateBackgroundImage
  \/ \E file \in Files : handleFileChange(file)
  \/ \E file \in Files : readerLoadEnd(file)
  \/ \E image \in loading : imageLoad(image)
  \/ handleJSONExport
  \/ \E text \in TypedTexts \cup {textArea} : handleJSONImport(text)
  \/ \E pos \in Points \cup {Undefined}, target \in Targets :
       handleCanvasMouseDown(pos, target)
  \/ \E pos \in Points \cup {Undefined} : handleCanvasMouseMove(pos)
  \/ Render
  \/ handleCanvasMouseUp
  \/ \E index \in 0..(Len(shapes) - 1) : handleSelect(index)
  \/ \E index \in 0..(Len(shapes) - 1), pos \in Points : handleDragEnd(index, pos)
  \/ \E index \in 0..(Len(shapes) - 1), size \in Sizes :
       handleTransformEnd(index, size)
  \/ \E key \in Keys : keyDown(key)

Spec == Init /\ [][Next]_vars

\* long runs of document commands and edits, without drawing
LongNext ==
  \/ rotateBackgroundImage
  \/ handleJSONExport
  \/ \E text \in TypedTexts \cup MoreTexts \cup {textArea} : handleJSONImport(text)
  \/ \E index \in 0..(Len(shapes) - 1) : handleSelect(index)
  \/ \E index \in 0..(Len(shapes) - 1), pos \in Points : handleDragEnd(index, pos)
  \/ \E index \in 0..(Len(shapes) - 1), size \in Sizes :
       handleTransformEnd(index, size)
  \/ \E key \in Keys : keyDown(key)

LongSpec == LongInit /\ [][LongNext]_vars

\* long runs of uploads and imports: the steps that start and end image loads
LoadNext ==
  \/ \E file \in Files : handleFileChange(file)
  \/ \E file \in Files : readerLoadEnd(file)
  \/ \E image \in loading : imageLoad(image)
  \/ \E text \in TypedTexts \cup {textArea} : handleJSONImport(text)

LoadSpec == LongInit /\ [][LoadNext]_vars

---------------------------------------------------------------------------
(* Properties *)

LastOf(list) == list[Len(list)]

\* every shape of the list but the one at index is the same in both lists
OthersSame(old, new, index) ==
  /\ Len(new) = Len(old)
  /\ \A j \in 0..(Len(old) - 1) : j # index => At(new, j) = At(old, j)

\* C1: a pointer-up with a draft present makes the shape list the previous
\* list with that draft appended at the end (so no other shape changes),
\* clears the draft state and sets drawMode to SELECT.
C1_PointerUpCommitsDraft ==
  [][(handleCanvasMouseUp /\ drawTarget # Undefined) =>
       /\ shapes' = Append(shapes, drawTarget)
       /\ drawTarget' = Undefined
       /\ queuedTarget' = Undefined
       /\ drawMode' = "SELECT"]_vars

\* a draft was committed behind two shapes that were already in the list
C1_Witness ==
  /\ last = "mouseUp"
  /\ emitted[1].newItem # Undefined
  /\ Len(shapes) >= 3
  /\ LastOf(shapes) = emitted[1].newItem
  /\ drawTarget = Undefined
  /\ drawMode = "SELECT"

\* C2: a pointer-down with a known pointer position creates a draft exactly
\* when drawMode is not SELECT; the draft is anchored at the pointer position
\* with zero extent and its kind follows drawMode (TEXT_S: font size 16,
\* TEXT_L: font size 32); in SELECT mode the draft state stays empty.
C2_PointerDownCreatesDraft ==
  [][\A pos \in Points, target \in Targets :
       handleCanvasMouseDown(pos, target) =>
         /\ (drawTarget' # Undefined) <=> (drawMode # "SELECT")
         /\ queuedTarget' = drawTarget'
         /\ drawMode # "SELECT" =>
              /\ drawTarget'.x = pos.x
              /\ drawTarget'.y = pos.y
         /\ drawMode = "RECT" =>
              /\ drawTarget'.type = "RECT"
              /\ drawTarget'.width = 0
              /\ drawTarget'.height = 0
         /\ drawMode = "ELLIPSE" =>
              /\ drawTarget'.type = "ELLIPSE"
              /\ drawTarget'.radiusX = 0
              /\ drawTarget'.radiusY = 0
         /\ drawMode = "TEXT_S" =>
              /\ drawTarget'.type = "TEXT"
              /\ drawTarget'.width = 0
              /\ drawTarget'.fontSize = 16
         /\ drawMode = "TEXT_L" =>
              /\ drawTarget'.type = "TEXT"
              /\ drawTarget'.width = 0
              /\ drawTarget'.fontSize = 32]_vars

\* a pointer-down in TEXT_L mode left a text draft of font size 32
C2_Witness ==
  /\ last = "mouseDown"
  /\ drawMode = "TEXT_L"
  /\ drawTarget # Undefined
  /\ drawTarget.type = "TEXT"
  /\ drawTarget.fontSize = 32
  /\ drawTarget.x = 2
  /\ drawTarget.y = 1

\* the draft as sized by a pointer-move to pos
RectSizedTo(target, pos) ==
  [target EXCEPT !.width = pos.x - target.x, !.height = pos.y - target.y]
EllipseSizedTo(target, pos) ==
  [target EXCEPT !.radiusX = Abs(pos.x - target.x),
                 !.radiusY = Abs(pos.y - target.y)]

\* C3: drawing a Rect from anchor (x0,y0) and releasing at (x1,y1) commits a
\* shape with x = x0, y = y0, width = x1 - x0 and height = y1 - y0 (signed):
\* every pointer-move sizes the draft from its anchor to the pointer, and the
\* pointer-up commits the draft as the most recent pointer-move sized it.
C3_RectCommitExtent ==
  [][/\ \A pos \in Points :
          (handleCanvasMouseMove(pos) /\ queuedTarget # Undefined
             /\ isPaintRect(queuedTarget))
            => queuedTarget' = RectSizedTo(queuedTarget, pos)
     /\ (handleCanvasMouseUp /\ queuedTarget # Undefined
           /\ isPaintRect(queuedTarget))
          => (shapes' # <<>> /\ LastOf(shapes') = queuedTarget)]_vars

\* C4: drawing an Ellipse from anchor (x0,y0) and releasing at (x1,y1) commits
\* radiusX = |x1 - x0| and radiusY = |y1 - y0|; the radii of a draft or drawn
\* ellipse are non-negative after every pointer-move.
C4_EllipseCommitRadii ==
  [][/\ \A pos \in Points :
          (handleCanvasMouseMove(pos) /\ queuedTarget # Undefined
             /\ isPaintEllipse(queuedTarget))
            => /\ queuedTarget' = EllipseSizedTo(queuedTarget, pos)
               /\ queuedTarget'.radiusX >= 0
               /\ queuedTarget'.radiusY >= 0
     /\ (handleCanvasMouseUp /\ queuedTarget # Undefined
           /\ isPaintEllipse(queuedTarget))
          => /\ shapes' # <<>>
             /\ LastOf(shapes') = queuedTarget
             /\ LastOf(shapes').radiusX >= 0
             /\ LastOf(shapes').radiusY >= 0]_vars

\* the fields of a shape that are not its geometry or its text
SameIdentity(old, new) ==
  /\ new.type = old.type
  /\ new.key = old.key
  /\ new.readonly = old.readonly
  /\ isPaintText(old) => (new.color = old.color /\ new.fontSize = old.fontSize)
  /\ ~isPaintText(old) => /\ new.strokeColor = old.strokeColor
                          /\ new.fillColor = old.fillColor

\* r is floor(n / 2)
IsHalfFloor(r, n) == 2 * r <= n /\ n < 2 * r + 2

\* C5: resize-end(index, {width W, height H}) updates the shape at index by
\* its variant: a Rect gets width W and height H, an Ellipse gets radiusX
\* floor(W/2) and radiusY floor(H/2), a Text gets width W and nothing else;
\* x, y, key, style and readonly of that shape and every other shape are
\* unchanged.
C5_ResizeEndByVariant ==
  [][\A index \in 0..(Len(shapes) - 1), size \in Sizes :
       handleTransformEnd(index, size) =>
         LET old == At(shapes, index)
             new == At(shapes', index)
         IN /\ OthersSame(shapes, shapes', index)
            /\ SameIdentity(old, new)
            /\ new.x = old.x
            /\ new.y = old.y
            /\ isPaintRect(old) =>
                 (new.width = size.width /\ new.height = size.height)
            /\ isPaintEllipse(old) =>
                 /\ IsHalfFloor(new.radiusX, size.width)
                 /\ IsHalfFloor(new.radiusY, size.height)
            /\ isPaintText(old) =>
                 new = [old EXCEPT !.width = size.width]]_vars

\* an ellipse next to another shape was resized to the box 3 x 5
C5_Witness ==
  /\ last = "transformEnd"
  /\ emitted[1].size = [width |-> 3, height |-> 5]
  /\ Len(shapes) >= 2
  /\ isPaintEllipse(At(shapes, emitted[1].index))
  /\ At(shapes, emitted[1].index).radiusX = 1
  /\ At(shapes, emitted[1].index).radiusY = 2

\* C6: move-end(index, pos) sets x and y of the shape at index to pos and
\* changes nothing else: the other fields of that shape, every other shape,
\* the order and length of the list, the selection and the draw mode.
C6_MoveEndSetsPosition ==
  [][\A index \in 0..(Len(shapes) - 1), pos \in Points :
       handleDragEnd(index, pos) =>
         /\ OthersSame(shapes, shapes', index)
         /\ At(shapes', index) = [At(shapes, index) EXCEPT !.x = pos.x, !.y = pos.y]
         /\ At(shapes', index).x = pos.x
         /\ At(shapes', index).y = pos.y
         /\ selectedShape' = selectedShape
         /\ drawMode' = drawMode
         /\ UNCHANGED <<drawTarget, queuedTarget, readonly, penColor, bgImg,
                        bgImgRotation, textArea>>]_vars

\* the second shape of a list was moved to (2, 1)
C6_Witness ==
  /\ last = "dragEnd"
  /\ emitted[1].index = 1
  /\ emitted[1].pos = [x |-> 2, y |-> 1]
  /\ Len(shapes) >= 2
  /\ At(shapes, 1).x = 2
  /\ At(shapes, 1).y = 1
  /\ At(shapes, 0).x # 2

\* new is old without its last character (old itself when old is empty)
IsWithoutLast(old, new) ==
  /\ Len(new) = (IF Len(old) = 0 THEN 0 ELSE Len(old) - 1)
  /\ \A i \in 1..Len(new) : new[i] = old[i]

\* C7: text-input(index, char) on a Text shape removes the last character of
\* its text when char is "Backspace" (an empty text stays empty) and otherwise
\* appends char verbatim, whatever key name it is; on a Rect or Ellipse at
\* that index no shape changes.
C7_TextInputEditsText ==
  [][\A key \in Keys :
       (keyDown(key) /\ emitted' # <<>> /\ InRange(shapes, emitted'[1].index)) =>
         LET index == emitted'[1].index
             char == emitted'[1].char
             old == At(shapes, index)
             new == At(shapes', index)
         IN /\ OthersSame(shapes, shapes', index)
            /\ ~isPaintText(old) => new = old
            /\ isPaintText(old) =>
                 /\ new = [old EXCEPT !.text = new.text]
                 /\ char = "Backspace" => IsWithoutLast(old.text, new.text)
                 /\ char # "Backspace" => new.text = old.text \o Chars(char)]_vars

\* the key F1 was appended, as the two characters of its name, to a text
C7_Witness ==
  /\ last = "keyDown"
  /\ emitted # <<>>
  /\ emitted[1].char = "F1"
  /\ InRange(shapes, emitted[1].index)
  /\ isPaintText(At(shapes, emitted[1].index))
  /\ At(shapes, emitted[1].index).text = <<"T", "E", "X", "T", "F", "1">>

\* C8: while a shape is selected, a key-down of Enter clears the selection and
\* forwards nothing to the host, and a key-down of any other key is forwarded
\* exactly once as text-input(selection.index, key) and leaves the selection
\* unchanged.
C8_KeyDownWhileSelected ==
  [][\A key \in Keys :
       (keyDown(key) /\ selectedShape # Undefined) =>
         IF key = "Enter"
           THEN /\ selectedShape' = Undefined
                /\ emitted' = <<>>
                /\ shapes' = shapes
           ELSE /\ emitted' = <<[cb |-> "onTextInput",
                                 index |-> selectedShape.index, char |-> key]>>
                /\ selectedShape' = selectedShape]_vars

\* a key was forwarded for the selected second shape of the list
C8_Witness ==
  /\ last = "keyDown"
  /\ selectedShape # Undefined
  /\ selectedShape.index = 1
  /\ emitted = <<[cb |-> "onTextInput", index |-> 1, char |-> "A"]>>

\* C9 as claimed: clicking a non-readonly committed shape makes it the
\* selection with that shape's current index and key; a pointer-down on empty
\* canvas (stage background or background image) clears the selection, in
\* every draw mode.
C9_ClickSelectsEmptyClears ==
  [][/\ \A index \in 0..(Len(shapes) - 1) :
          (handleSelect(index) /\ ~At(shapes, index).readonly)
            => selectedShape' = [type |-> "selection", index |-> index,
                                 key |-> At(shapes, index).key]
     /\ \A pos \in Points \cup {Undefined}, target \in {"stage", "image"} :
          handleCanvasMouseDown(pos, target) => selectedShape' = Undefined]_vars

\* C9 as amended: clicking a non-readonly committed shape makes it the
\* selection with that shape's current index and key; a pointer-down on empty
\* canvas whose pointer position is known clears the selection, in every draw
\* mode.
C9_ClickSelectsKnownEmptyClears ==
  [][/\ \A index \in 0..(Len(shapes) - 1) :
          (handleSelect(index) /\ ~At(shapes, index).readonly)
            => selectedShape' = [type |-> "selection", index |-> index,
                                 key |-> At(shapes, index).key]
     /\ \A pos \in Points, target \in {"stage", "image"} :
          handleCanvasMouseDown(pos, target) => selectedShape' = Undefined]_vars

\* a click selected the second shape of the list
C9_Witness ==
  /\ last = "click"
  /\ Len(shapes) >= 2
  /\ selectedShape = [type |-> "selection", index |-> 1, key |-> At(shapes, 1).key]

\* C10: clicking a shape whose readonly flag is true has no effect (the
\* selection is left as it was), and in every reachable state the shape that
\* carries the transform handles (the one whose key equals the selection's
\* key) is not a readonly shape.
C10_ReadonlyNeverSelected ==
  /\ [](\A index \in 0..(Len(shapes) - 1) :
          Selected(shapes, index, selectedShape) => ~At(shapes, index).readonly)
  /\ [][\A index \in 0..(Len(shapes) - 1) :
          (handleSelect(index) /\ At(shapes, index).readonly)
            => selectedShape' = selectedShape]_vars

\* C11: after any sequence of draw, select, move, resize, key-input, export
\* and import operations, no move-end, resize-end or text-input changes a
\* shape whose readonly flag is true, also when the key input is routed
\* through a selection index that was set before the shape list was replaced.
C11_ReadonlyNeverEdited ==
  [][(\/ \E index \in 0..(Len(shapes) - 1), pos \in Points :
            handleDragEnd(index, pos)
      \/ \E index \in 0..(Len(shapes) - 1), size \in Sizes :
            handleTransformEnd(index, size)
      \/ \E key \in Keys : keyDown(key))
       => \A i \in 0..(Len(shapes) - 1) :
            At(shapes, i).readonly =>
              (InRange(shapes', i) /\ At(shapes', i) = At(shapes, i))]_vars

\* the step is an edit of a shape: a move-end, a resize-end or a key-down
\* (each of which records its name in last)
EditStep ==
  /\ last' \in {"dragEnd", "transformEnd", "keyDown"}
  /\ \/ \E index \in 0..(Len(shapes) - 1), pos \in Points : handleDragEnd(index, pos)
     \/ \E index \in 0..(Len(shapes) - 1), size \in Sizes :
          handleTransformEnd(index, size)
     \/ \E key \in Keys : keyDown(key)

\* the keys of a list, position by position
KeyList(list) == [i \in 1..Len(list) |-> list[i].key]

\* C12: in every reachable state no two shapes of the shape list have the
\* same key, and move-end, resize-end and text-input never change the key of
\* any shape.
C12_KeysUniqueAndStable ==
  /\ [](\A i, j \in 1..Len(shapes) : shapes[i].key = shapes[j].key => i = j)
  /\ [][EditStep => KeyList(shapes') = KeyList(shapes)]_vars

\* C13: there is at most one selection at a time, and whenever a selection
\* {index, key} exists, index is a valid position of the current shape list
\* and the shape at that position has that key; this holds after every
\* operation, including draw commit and JSON import.
C13_SelectionDenotesShape ==
  selectedShape # Undefined =>
    /\ InRange(shapes, selectedShape.index)
    /\ At(shapes, selectedShape.index).key = selectedShape.key

\* the texts the import button can be pressed with
ImportTexts == TypedTexts \cup MoreTexts \cup {textArea}

\* C14: importing a string that is not JSON leaves the shape list, the
\* background rotation and the background image unchanged, starts no image
\* load, and raises the failure alert.
C14_NonJSONImportRejected ==
  [][last' = "import" =>
       \A text \in ImportTexts :
         (~IsJSON(text) /\ handleJSONImport(text)) =>
           /\ shapes' = shapes
           /\ bgImgRotation' = bgImgRotation
           /\ bgImg' = bgImg
           /\ loading' = loading
           /\ reading' = reading
           /\ crashed' = crashed
           /\ emitted' = <<[cb |-> "alert"]>>]_vars

\* the text "oops" was imported over a list of two shapes, with an alert
C14_Witness ==
  /\ last = "import"
  /\ textArea = [kind |-> "text", value |-> "oops"]
  /\ emitted = <<[cb |-> "alert"]>>
  /\ Len(shapes) = 2
  /\ bgImgRotation = 90

\* a parsed value with the structure of a document
IsDocument(data) ==
  data.type = "object" /\ Has(data, "shapes") /\ Has(data, "bgImgRotation")

\* C15: importing text that parses as JSON but is structurally not a document
\* (an object without shapes or bgImgRotation, or a value that is not an
\* object) raises the failure alert and leaves the shape list, the rotation
\* and the background image untouched.
C15_NonDocumentImportRejected ==
  [][last' = "import" =>
       \A text \in ImportTexts :
         (IsJSON(text) /\ ~IsDocument(JSONparse(text)) /\ handleJSONImport(text)) =>
           /\ emitted' = <<[cb |-> "alert"]>>
           /\ shapes' = shapes
           /\ bgImgRotation' = bgImgRotation
           /\ bgImg' = bgImg
           /\ crashed' = crashed]_vars

\* C16: export followed by import of the exported text, with no operation in
\* between, leaves the shape list equal field for field (same shapes, same
\* order) and the background rotation equal to their values before the
\* export.
C16_ExportImportRoundTrip ==
  [][(last = "export" /\ handleJSONImport(textArea)) =>
       /\ shapes' = shapes
       /\ bgImgRotation' = bgImgRotation]_vars

\* C17: for every pen color (ORANGE, GREEN, PURPLE), the strokeColor of a Rect
\* or Ellipse draft is the pen color's RGB with opacity 1.0 and its fillColor
\* is the same RGB with opacity 0.3.
C17_DraftColors ==
  [][(drawMode \in {"RECT", "ELLIPSE"} /\ last' = "mouseDown") =>
       \A pos \in Points, target \in Targets :
         handleCanvasMouseDown(pos, target) =>
           /\ drawTarget'.strokeColor = getRGBFromPenColor(penColor, 10)
           /\ drawTarget'.strokeColor.a = 10
           /\ drawTarget'.fillColor.a = 3
           /\ [drawTarget'.fillColor EXCEPT !.a = 10] = drawTarget'.strokeColor]_vars

\* a pointer-down with the purple pen left an ellipse draft
C17_Witness ==
  /\ last = "mouseDown"
  /\ penColor = "PURPLE"
  /\ drawTarget # Undefined
  /\ isPaintEllipse(drawTarget)
  /\ drawTarget.strokeColor = [r |-> 168, g |-> 85, b |-> 247, a |-> 10]
  /\ drawTarget.fillColor = [r |-> 168, g |-> 85, b |-> 247, a |-> 3]

\* the step is a JSON import
ImportStep ==
  last' = "import" /\ \E text \in ImportTexts : handleJSONImport(text)

\* the step is a click on a shape
SelectStep ==
  last' = "click" /\ \E index \in 0..(Len(shapes) - 1) : handleSelect(index)

\* C18: without a JSON import the shape list only grows: move-end, resize-end,
\* text-input, selection and key events leave its length and the key at every
\* index unchanged, and a draw commit adds exactly one shape at the end
\* without moving any existing shape; only import removes or reorders shapes.
C18_ListOnlyGrowsWithoutImport ==
  [][/\ ~ImportStep =>
          /\ Len(shapes') >= Len(shapes)
          /\ \A i \in 1..Len(shapes) : shapes'[i].key = shapes[i].key
     /\ (EditStep \/ SelectStep) => KeyList(shapes') = KeyList(shapes)
     /\ (drawTarget # Undefined /\ last' = "mouseUp" /\ handleCanvasMouseUp) =>
          /\ Len(shapes') = Len(shapes) + 1
          /\ SubSeq(shapes', 1, Len(shapes)) = shapes]_vars

\* the first of two shapes was moved and the list still holds both in order
C18_Witness ==
  /\ last = "dragEnd"
  /\ emitted[1].index = 0
  /\ Len(shapes) = 2
  /\ shapes[1].key = 101
  /\ shapes[2].key = 102

\* A list as JavaScript holds it: an array of references and the objects
\* they refer to.  The reference of an object is its position in the heap.
Array(list) == [refs |-> [i \in 1..Len(list) |-> i], heap |-> list]

\* the records an array of references holds, read from a heap
Deref(heap, refs) == [i \in 1..Len(refs) |-> heap[refs[i]]]

\* The updater handleShapeMoveEnd passes to setShapes, run on a heap:
\* newShapes = [...prevShapes] holds the references prevShapes holds, and the
\* assignments to newShapes[index].x and .y write to the object itself.
moveEndUpdater(heap, prevShapes, index, pos) ==
  LET newShapes == prevShapes IN
  [heap |-> handleShapeMoveEnd(heap, At(newShapes, index) - 1, pos),
   newShapes |-> newShapes]

\* the updater of handleShapeResizeEnd, run on a heap
resizeEndUpdater(heap, prevShapes, index, size) ==
  LET newShapes == prevShapes IN
  [heap |-> handleShapeResizeEnd(heap, At(newShapes, index) - 1, size),
   newShapes |-> newShapes]

\* the updater of handleTextInput, run on a heap
textInputUpdater(heap, prevShapes, index, char) ==
  LET newShapes == prevShapes IN
  [heap |-> handleTextInput(heap, At(newShapes, index) - 1, char),
   newShapes |-> newShapes]

\* running an updater on the array `prevShapes` left the records that array
\* holds as they were, and running it a second time on the same array gives
\* the list the first run gave
NonDestructive(list, once, twice) ==
  /\ Deref(once.heap, Array(list).refs) = list
  /\ Deref(twice.heap, twice.newShapes) = Deref(once.heap, once.newShapes)

\* C19: move-end, resize-end and text-input are non-destructive updates: each
\* builds a new shape list and leaves the previous shape list value, with the
\* shape records it holds, unmodified, so that applying the same update
\* function twice to the same previous list gives the same result as applying
\* it once.
C19_UpdatesNonDestructive ==
  \A index \in 0..(Len(shapes) - 1) :
    LET prevShapes == Array(shapes).refs
        heap == Array(shapes).heap IN
    /\ \A pos \in Points :
         LET once == moveEndUpdater(heap, prevShapes, index, pos) IN
         NonDestructive(shapes, once,
                        moveEndUpdater(once.heap, prevShapes, index, pos))
    /\ \A size \in Sizes :
         LET once == resizeEndUpdater(heap, prevShapes, index, size) IN
         NonDestructive(shapes, once,
                        resizeEndUpdater(once.heap, prevShapes, index, size))
    /\ \A char \in Keys :
         LET once == textInputUpdater(heap, prevShapes, index, char) IN
         NonDestructive(shapes, once,
                        textInputUpdater(once.heap, prevShapes, index, char))

\* C20: when two background-image loads are in flight at the same time (two
\* uploads, or an upload and a JSON import with an image source), the
\* background image ends as the image whose load event fires last, whatever
\* the order in which the loads were started, and a load is never cancelled
\* by a later one: in the mounted tree each load event makes its own image the
\* background image and ends only its own load, and no other step takes a
\* load out of flight.
C20_LastLoadWins ==
  [][/\ (last' = "load" /\ ~crashed) =>
          \A image \in loading :
            imageLoad(image) =>
              /\ bgImg' = image
              /\ loading' = loading \ {image}
     /\ last' # "load" => loading \subseteq loading']_vars

\* the load of imgB, started by an import, fired while the load of the
\* uploaded imgA was still in flight
C20_Witness ==
  /\ last = "load"
  /\ ~crashed
  /\ bgImg = Image("imgB")
  /\ loading = {Image("imgA")}

\* C21: the global key listener is attached exactly while a selection exists:
\* a key-down while nothing is selected (initially, after Enter, or after a
\* click on empty canvas) forwards no text-input and changes neither the
\* shape list nor the selection, and a key-down while a shape is selected
\* either forwards a text-input or clears the selection.
C21_KeyListenerOnlyWhileSelected ==
  [][last' = "keyDown" =>
       \A key \in Keys :
         keyDown(key) =>
           IF selectedShape = Undefined
             THEN /\ emitted' = <<>>
                  /\ shapes' = shapes
                  /\ selectedShape' = Undefined
             ELSE emitted' # <<>> \/ selectedShape' = Undefined]_vars

\* a key was pressed before any shape existed, so with nothing selected
C21_Witness ==
  /\ last = "keyDown"
  /\ commands = 0
  /\ shapes = <<>>
  /\ selectedShape = Undefined
  /\ emitted = <<>>

\* C22: in every reachable state, if a draft exists then drawMode is not
\* SELECT: a draft is created only in a non-SELECT mode, and the only
\* transition that sets drawMode to SELECT (pointer-up) clears the draft in
\* the same step.
C22_DraftOnlyWhileDrawing ==
  /\ []((drawTarget # Undefined \/ queuedTarget # Undefined)
          => drawMode # "SELECT")
  /\ [][/\ (drawTarget = Undefined /\ drawTarget' # Undefined)
             => (last' = "mouseDown" /\ drawMode # "SELECT")
        /\ (drawMode # "SELECT" /\ drawMode' = "SELECT")
             => /\ last' = "mouseUp"
                /\ drawTarget' = Undefined
                /\ queuedTarget' = Undefined]_vars

\* the draw mode was changed to ELLIPSE while a Rect draft existed
C22_Witness ==
  /\ last = "drawModeChange"
  /\ drawMode = "ELLIPSE"
  /\ drawTarget # Undefined
  /\ isPaintRect(drawTarget)

\* C23: the shape committed on pointer-up has the extent computed from the
\* most recent pointer-move of the gesture, also when that pointer-move's
\* queued draft update has not been rendered before the pointer-up handler
\* runs: the committed shape is the draft with every queued update applied.
C23_CommitUsesLatestMove ==
  [][(last' = "mouseUp" /\ queuedTarget # Undefined /\ handleCanvasMouseUp)
       => /\ shapes' = Append(shapes, queuedTarget)
          /\ emitted' = <<[cb |-> "onDrawEnd", newItem |-> queuedTarget]>>]_vars

\* the document names a background image (an empty bgImgSrc names none)
HasImage(data) == Has(data, "bgImgSrc") /\ data.bgImgSrc # ""

\* C24: importing a valid document that has no bgImgSrc replaces the rotation
\* and the shape list but leaves the current background image unchanged (it
\* is not cleared); a document with bgImgSrc replaces rotation and shapes at
\* once and the background image only later, when its load event fires: the
\* import starts the load and leaves the background image as it is, and the
\* background image changes only at the load event of an image in flight.
C24_ImportKeepsImageUntilLoad ==
  [][/\ last' = "import" =>
          \A text \in ImportTexts :
            (IsJSON(text) /\ IsDocument(JSONparse(text)) /\ handleJSONImport(text))
              => LET data == JSONparse(text) IN
                 /\ bgImgRotation' = data.bgImgRotation
                 /\ shapes' = data.shapes
                 /\ bgImg' = bgImg
                 /\ loading' = IF HasImage(data)
                                 THEN loading \cup {Image(data.bgImgSrc)}
                                 ELSE loading
     /\ bgImg' # bgImg => (last' = "load" /\ bgImg' \in loading)]_vars

\* a document without bgImgSrc was imported while imgA was the background
\* image
C24_Witness ==
  /\ last = "import"
  /\ emitted = <<>>
  /\ bgImg = Image("imgA")
  /\ loading = {}
  /\ bgImgRotation = 90
  /\ Len(shapes) = 2

====
